---- MODULE Spec2Model ----
(***************************************************************************)
(* Lafz-Vigyan (src/app.py): the text-analysis pipeline behind the         *)
(* "Analyze Text" button.  A text is a sequence of Unicode code points     *)
(* (integers); a word or a symbol is again such a sequence.  The Python    *)
(* built-ins the pipeline calls (str.strip, re.findall(r'\w+'),            *)
(* str.isnumeric, collections.Counter, Counter.most_common,                *)
(* DataFrame.sort_values) and the emoji package are modelled by what they  *)
(* do on the code points the model covers: U+0000..U+00FF, the Gurmukhi    *)
(* block U+0A00..U+0A7F and a handful of emoji.                            *)
(***************************************************************************)
EXTENDS Integers, Sequences, FiniteSets, TLC

VARIABLES
    user_input,   \* the text area's content (app.py:99)
    lexicon,      \* the module-level set STANDARD_PUNJABI_DICT (app.py:42)
    outcome,      \* what the last script run rendered: "idle", "warning", "report"
    report,       \* the values main() computes in one run (app.py:108-132)
    neo_df,       \* the rows of the neologism table (app.py:154)
    emoji_df,     \* the rows of the top-5 emoji table (app.py:171)
    progress,     \* the value handed to st.progress (app.py:179)
    steps,        \* the pipeline steps the last run executed
    call_args,    \* the arguments of the last calculate_evolution_score call
    call_result,  \* what that call returned
    baseline      \* history: the first run on a probe text and what it rendered

vars == <<user_input, lexicon, outcome, report, neo_df, emoji_df, progress,
          steps, call_args, call_result, baseline>>

(***************************************************************************)
(* Bounds of the model.                                                    *)
(***************************************************************************)
\* longest text typed character by character
MaxLen == 3
\* largest magnitude of a count handed directly to calculate_evolution_score
MaxCount == 5

(***************************************************************************)
(* Code points, by Python's str predicates (Unicode 15, CPython 3.11).     *)
(***************************************************************************)
\* str.isspace
isspace(c) ==
    \/ c \in 9..13 \/ c \in 28..32 \/ c = 133 \/ c = 160
    \/ c \in 8192..8202 \/ c \in 8232..8233 \/ c = 8239 \/ c = 8287

\* str.isalpha: general categories Lu, Ll, Lt, Lm, Lo.  The Gurmukhi vowel
\* signs, bindi, tippi, addak, nukta and virama are Mn/Mc and are not alpha.
isalpha(c) ==
    \/ c \in 65..90 \/ c \in 97..122 \/ c = 170 \/ c = 181 \/ c = 186
    \/ c \in 192..214 \/ c \in 216..246 \/ c \in 248..255
    \/ c \in 2565..2570 \/ c \in 2575..2576 \/ c \in 2579..2600
    \/ c \in 2602..2608 \/ c \in 2610..2611 \/ c \in 2613..2614
    \/ c \in 2616..2617 \/ c \in 2649..2652 \/ c = 2654 \/ c \in 2674..2676
    \/ c = 8505

\* str.isdecimal: general category Nd
isdecimal(c) == c \in 48..57 \/ c \in 2662..2671

\* the numeric property of one character (str.isnumeric on a 1-character
\* string): Nd, plus superscripts and vulgar fractions of Latin-1
isnumeric_char(c) ==
    \/ isdecimal(c) \/ c \in 178..179 \/ c = 185 \/ c \in 188..190

\* a character re's \w matches in a str pattern: alphanumeric or underscore
is_word_char(c) == isalpha(c) \/ isnumeric_char(c) \/ c = 95

(***************************************************************************)
(* STANDARD_PUNJABI_DICT, app.py:42-52, word by word in code points.       *)
(***************************************************************************)
STANDARD_PUNJABI_DICT ==
    {
      <<2606, 2632, 2562>>, <<2596, 2626, 2672>>, <<2565, 2616, 2624, 2562>>,
      <<2596, 2625, 2616, 2624, 2562>>, <<2569, 2617>>, <<2617, 2622, 2562>>,
      <<2616, 2624>>, <<2600, 2631>>, <<2600, 2626, 2672>>,
      <<2598, 2622>>, <<2598, 2631>>, <<2598, 2624>>,
      <<2613, 2623, 2673, 2586>>, <<2596, 2631>>, <<2565, 2596, 2631>>,
      <<2602, 2608>>, <<2588, 2622, 2562>>, <<2581, 2623, 2569, 2562, 2581, 2623>>,
      <<2588, 2598, 2635, 2562>>, <<2596, 2598>>, <<2617, 2625, 2595>>,
      <<2581, 2673, 2610, 2637, 2617>>, <<2565, 2673, 2588>>, <<2616, 2622, 2593, 2622>>,
      <<2596, 2625, 2617, 2622, 2593, 2622>>, <<2606, 2631, 2608, 2622>>, <<2581, 2624>>,
      <<2581, 2623, 2613, 2631, 2562>>, <<2581, 2623, 2673, 2597, 2631>>, <<2581, 2636, 2595>>,
      <<2588, 2622>>, <<2566>>, <<2582, 2622>>,
      <<2602, 2624>>, <<2616, 2636, 2562>>, <<2608, 2617, 2623>>,
      <<2581, 2608>>, <<2598, 2631, 2582>>, <<2616, 2625, 2595>>,
      <<2604, 2635, 2610>>, <<2610, 2623, 2582>>, <<2602, 2652, 2637, 2617>>,
      <<2584, 2608>>, <<2616, 2581, 2626, 2610>>, <<2581, 2672, 2606>>,
      <<2602, 2622, 2595, 2624>>, <<2608, 2635, 2591, 2624>>, <<2586, 2622, 2617>>,
      <<2598, 2625, 2673, 2599>>, <<2606, 2622, 2562>>, <<2602, 2623, 2579>>,
      <<2605, 2608, 2622>>, <<2605, 2632, 2595>>, <<2598, 2635, 2616, 2596>>,
      <<2606, 2623, 2673, 2596, 2608>>, <<2582, 2625, 2616, 2620, 2624>>, <<2583, 2620, 2606>>,
      <<2602, 2623, 2566, 2608>>, <<2600, 2603, 2620, 2608, 2596>>, <<2588, 2620, 2623, 2672, 2598, 2583, 2624>>,
      <<2606, 2636, 2596>>, <<2616, 2673, 2586>>, <<2589, 2626, 2592>>,
      <<2598, 2623, 2600>>, <<2608, 2622, 2596>>, <<2616, 2613, 2631, 2608>>,
      <<2616, 2620, 2622, 2606>>, <<2613, 2599, 2624, 2566>>, <<2606, 2622, 2652, 2622>>,
      <<2586, 2672, 2583, 2622>>, <<2616, 2635, 2617, 2595, 2622>>, <<2613, 2673, 2593, 2622>>,
      <<2587, 2635, 2591, 2622>>, <<2600, 2613, 2622, 2562>>, <<2602, 2625, 2608, 2622, 2595, 2622>>,
      <<2610, 2622, 2610>>, <<2581, 2622, 2610, 2622>>, <<2586, 2623, 2673, 2591, 2622>>,
      <<2600, 2624, 2610, 2622>>, <<2567, 2673, 2581>>, <<2598, 2635>>,
      <<2596, 2623, 2672, 2600>>, <<2586, 2622, 2608>>, <<2602, 2672, 2588>>,
      <<2598, 2616>>, <<2616, 2636>>, <<2617, 2588, 2620, 2622, 2608>>,
      <<2610, 2673, 2582>>, <<2581, 2608, 2635, 2652>>, <<2605, 2622, 2608, 2596>>,
      <<2602, 2672, 2588, 2622, 2604>>, <<2598, 2625, 2600, 2624, 2566>>, <<2599, 2608, 2596, 2624>>,
      <<2565, 2616, 2606, 2622, 2600>>, <<2616, 2626, 2608, 2588>>, <<2586, 2672, 2598>>,
      <<2596, 2622, 2608, 2631>>, <<2617, 2613, 2622>>, <<2565, 2673, 2583>>,
      <<2581, 2623, 2596, 2622, 2604>>, <<2581, 2622, 2602, 2624>>, <<2581, 2610, 2606>>,
      <<2603, 2635, 2600>>, <<2583, 2673, 2593, 2624>>, <<2604, 2673, 2616>>,
      <<2608, 2631, 2610>>, <<2588, 2617, 2622, 2588, 2620>>, <<2608, 2616, 2596, 2622>>,
      <<2616, 2620, 2617, 2623, 2608>>, <<2602, 2623, 2672, 2593>>
    }

(***************************************************************************)
(* Python built-ins on strings.                                            *)
(***************************************************************************)
RECURSIVE lstrip(_)
\* str.lstrip(): drop the leading whitespace
lstrip(text) ==
    IF text # <<>> /\ isspace(Head(text)) THEN lstrip(Tail(text)) ELSE text

RECURSIVE rstrip(_)
\* str.rstrip(): drop the trailing whitespace
rstrip(text) ==
    IF text # <<>> /\ isspace(text[Len(text)])
    THEN rstrip(SubSeq(text, 1, Len(text) - 1))
    ELSE text

\* str.strip()
strip(text) == rstrip(lstrip(text))

\* str.isnumeric(): non-empty and every character numeric
isnumeric(w) == w # <<>> /\ \A i \in 1..Len(w) : isnumeric_char(w[i])

RECURSIVE findall_from(_, _, _)
\* the scan of re.findall(r'\w+', text): cur is the run being read at i
findall_from(text, i, cur) ==
    IF i > Len(text)
    THEN IF cur = <<>> THEN <<>> ELSE <<cur>>
    ELSE IF is_word_char(text[i])
         THEN findall_from(text, i + 1, Append(cur, text[i]))
         ELSE (IF cur = <<>> THEN <<>> ELSE <<cur>>) \o findall_from(text, i + 1, <<>>)

\* re.findall(r'\w+', text): the maximal runs of word characters, in order
findall_w(text) == findall_from(text, 1, <<>>)

(***************************************************************************)
(* The emoji package: the emoji it knows are sequences of code points, and *)
(* both replace_emoji and emoji_list scan the text left to right taking    *)
(* the longest emoji that starts at each position.                         *)
(***************************************************************************)
\* 😊, ℹ, ℹ + variation selector, 👍, the skin tone 🏻, and 👍🏻
EMOJI_DATA ==
    { <<128522>>, <<8505>>, <<8505, 65039>>, <<128077>>, <<127995>>,
      <<128077, 127995>> }

\* the length of the longest emoji of EMOJI_DATA starting at text[i], or 0
emoji_match_len(text, i) ==
    LET lens == { Len(e) : e \in { d \in EMOJI_DATA :
                      /\ i + Len(d) - 1 <= Len(text)
                      /\ SubSeq(text, i, i + Len(d) - 1) = d } }
    IN  IF lens = {} THEN 0 ELSE CHOOSE l \in lens : \A m \in lens : m <= l

RECURSIVE replace_emoji_from(_, _)
replace_emoji_from(text, i) ==
    IF i > Len(text) THEN <<>>
    ELSE LET l == emoji_match_len(text, i)
         IN  IF l > 0 THEN replace_emoji_from(text, i + l)
             ELSE <<text[i]>> \o replace_emoji_from(text, i + 1)

\* replace_emoji with the removal left out: the text as it is
replace_emoji_kept(text) == text

\* emoji.replace_emoji(text, replace=''): the text without its emoji
replace_emoji(text) == replace_emoji_from(text, 1)

RECURSIVE emoji_list_from(_, _)
emoji_list_from(text, i) ==
    IF i > Len(text) THEN <<>>
    ELSE LET l == emoji_match_len(text, i)
         IN  IF l > 0
             THEN <<SubSeq(text, i, i + l - 1)>> \o emoji_list_from(text, i + l)
             ELSE emoji_list_from(text, i + 1)

\* [char['emoji'] for char in emoji.emoji_list(text)]
emoji_list(text) == emoji_list_from(text, 1)

(***************************************************************************)
(* The helper functions of app.py.                                         *)
(***************************************************************************)
\* clean_text_gurmukhi, app.py:56-67
clean_text_gurmukhi(text) ==
    LET text_no_emoji == replace_emoji(text)
        words == findall_w(text_no_emoji)
    IN  SelectSeq(words, LAMBDA w : ~isnumeric(w))

\* extract_emojis, app.py:69-73
extract_emojis(text) == emoji_list(text)

\* a Python float that is a ratio of integers, kept exact, denominator > 0
Ratio(n, d) == IF d < 0 THEN [num |-> -n, den |-> -d] ELSE [num |-> n, den |-> d]

\* calculate_evolution_score with the factor 100 left out
score_without_percent(neologism_count, total_words) ==
    IF total_words = 0
    THEN Ratio(0, 1)
    ELSE Ratio(neologism_count, total_words)

\* calculate_evolution_score, app.py:75-78
calculate_evolution_score(neologism_count, total_words) ==
    IF total_words = 0
    THEN Ratio(0, 1)
    ELSE Ratio(neologism_count * 100, total_words)

\* min(evolution_score / 100, 1.0), app.py:179
progress_value(score) ==
    IF score.num < score.den * 100
    THEN Ratio(score.num, score.den * 100)
    ELSE Ratio(1, 1)

\* evolution_score > 50, app.py:180
high_divergence(score) == score.num > score.den * 50

(***************************************************************************)
(* collections.Counter: a dict, which keeps its keys in insertion order,   *)
(* so a sequence of <<key, count>> pairs in order of first occurrence.     *)
(***************************************************************************)
counter_add(counter, x) ==
    IF \E i \in 1..Len(counter) : counter[i][1] = x
    THEN [i \in 1..Len(counter) |->
             IF counter[i][1] = x THEN <<x, counter[i][2] + 1>> ELSE counter[i]]
    ELSE Append(counter, <<x, 1>>)

RECURSIVE counter_update(_, _)
counter_update(counter, items) ==
    IF items = <<>> THEN counter
    ELSE counter_update(counter_add(counter, Head(items)), Tail(items))

RECURSIVE distinct_rows(_, _)
distinct_rows(rows, items) ==
    IF items = <<>> THEN rows
    ELSE distinct_rows(
             IF \E i \in 1..Len(rows) : rows[i][1] = Head(items)
             THEN rows ELSE Append(rows, <<Head(items), 1>>),
             Tail(items))

\* Counter over set(items): every count is 1
Counter_of_distinct(items) == distinct_rows(<<>>, items)

\* Counter(items)
Counter(items) == counter_update(<<>>, items)

RECURSIVE insert_desc(_, _)
\* insert row after every row whose count is not smaller (stable)
insert_desc(sorted, row) ==
    IF sorted = <<>> THEN <<row>>
    ELSE IF Head(sorted)[2] >= row[2]
         THEN <<Head(sorted)>> \o insert_desc(Tail(sorted), row)
         ELSE <<row>> \o sorted

RECURSIVE sorted_desc(_)
\* sorted(rows, key=count, reverse=True): stable
sorted_desc(rows) ==
    IF rows = <<>> THEN <<>>
    ELSE insert_desc(sorted_desc(SubSeq(rows, 1, Len(rows) - 1)), rows[Len(rows)])

\* Counter.most_common(n): the n largest, equal counts in order first seen
most_common(counter, n) ==
    LET s == sorted_desc(counter) IN SubSeq(s, 1, IF Len(s) < n THEN Len(s) ELSE n)

\* the permutations of 1..n
Permutations1(n) ==
    { p \in [1..n -> 1..n] : \A i, j \in 1..n : i # j => p[i] # p[j] }

\* DataFrame.sort_values(by="Frequency", ascending=False) with the default
\* kind='quicksort', which is not stable: every arrangement of the rows
\* in descending count is a possible result
sort_values_desc(rows) ==
    { [i \in 1..Len(rows) |-> rows[p[i]]] : p \in
        { q \in Permutations1(Len(rows)) :
            \A i \in 1..Len(rows) - 1 : rows[q[i]][2] >= rows[q[i + 1]][2] } }

(***************************************************************************)
(* One run of main() with the button pressed, app.py:101-183.              *)
(***************************************************************************)
\* not user_input: the test without strip()
is_empty(text) == text = <<>>

\* not user_input.strip(), app.py:102
is_blank(text) == strip(text) = <<>>

\* one pass of the loop body, app.py:123-126
classify_step(acc, word) ==
    IF word \in acc.known_words_set
    THEN [acc EXCEPT !.known_count = @ + 1]
    ELSE [acc EXCEPT !.neologisms = Append(@, word)]

RECURSIVE classify_words(_, _)
classify_words(acc, words) ==
    IF words = <<>> THEN acc
    ELSE classify_words(classify_step(acc, Head(words)), Tail(words))

RECURSIVE classify_words_no_else(_, _)
classify_words_no_else(acc, words) ==
    IF words = <<>> THEN acc
    ELSE classify_words_no_else(
             [acc EXCEPT !.known_count =
                             IF Head(words) \in acc.known_words_set THEN @ + 1 ELSE @,
                         !.neologisms = Append(@, Head(words))],
             Tail(words))

\* the loop with the else left out: every word is appended
classify_without_else(all_words, known_words_set) ==
    classify_words_no_else([known_count |-> 0, neologisms |-> <<>>,
                            known_words_set |-> known_words_set], all_words)

RECURSIVE classify_words_learning(_, _)
classify_words_learning(acc, words) ==
    IF words = <<>> THEN acc
    ELSE classify_words_learning(
             IF Head(words) \in acc.known_words_set
             THEN [acc EXCEPT !.known_count = @ + 1]
             ELSE [acc EXCEPT !.neologisms = Append(@, Head(words)),
                              !.known_words_set = @ \cup {Head(words)}],
             Tail(words))

\* the loop adding each new word to the dictionary it reads
classify_learning(all_words, known_words_set) ==
    classify_words_learning([known_count |-> 0, neologisms |-> <<>>,
                             known_words_set |-> known_words_set], all_words)

\* the neologism detection, app.py:117-126; known_words_set is the very
\* object STANDARD_PUNJABI_DICT, so its value after the loop is the global's
classify(all_words, known_words_set) ==
    classify_words([known_count |-> 0, neologisms |-> <<>>,
                    known_words_set |-> known_words_set], all_words)

\* what a run computes from the text, app.py:108-132 and 142
analyze(text, known_words_set) ==
    LET all_words_raw == clean_text_gurmukhi(text)
        all_emojis == extract_emojis(text)
        all_words == SelectSeq(all_words_raw, LAMBDA w : strip(w) # <<>>)
        total_word_count == Len(all_words)
        c == classify(all_words, known_words_set)
        neologism_total_count == Len(c.neologisms)
    IN  [ produced |-> TRUE,
          all_words |-> all_words,
          all_emojis |-> all_emojis,
          total_word_count |-> total_word_count,
          known_count |-> c.known_count,
          neologisms |-> c.neologisms,
          neologism_counts |-> Counter(c.neologisms),
          emoji_counts |-> Counter(all_emojis),
          neologism_total_count |-> neologism_total_count,
          symbol_count |-> Len(all_emojis),
          evolution_score |->
              calculate_evolution_score(neologism_total_count, total_word_count),
          known_words_set |-> c.known_words_set ]

NoReport == [produced |-> FALSE]
NoProgress == [shown |-> FALSE]
NoCall == <<>>
NoBaseline == [phase |-> "none"]

(***************************************************************************)
(* Inputs.                                                                 *)
(***************************************************************************)
\* the characters typed one at a time: gha, ra, the vowel sign aa, "1",
\* one half, underscore, space, the emoji 😊 and the letter-like emoji ℹ
TypedChars == {2584, 2608, 2622, 49, 189, 95, 32, 128522, 8505}

\* "ਮੈਂ ਘਰ ਜਾ ਰਿਹਾ ਹਾਂ 😊"
ScenarioText ==
    <<2606, 2632, 2562, 32, 2584, 2608, 32, 2588, 2622, 32, 2608, 2623, 2617,
      2622, 32, 2617, 2622, 2562, 32, 128522>>

\* whole texts pasted into the text area
SampleTexts ==
    { ScenarioText,
      \* "2024 ਸਾਲ"
      <<50, 48, 50, 52, 32, 2616, 2622, 2610>>,
      \* "!!! ,, ???"
      <<33, 33, 33, 32, 44, 44, 32, 63, 63, 63>>,
      \* "word123 a_b 12"
      <<119, 111, 114, 100, 49, 50, 51, 32, 97, 95, 98, 32, 49, 50>>,
      \* "ਰ ਜ ਘਰ ਘ ਘ ਜ 😊 👍🏻 🏻 ℹ️ 👍 ℹ 👍🏻"
      <<2608, 32, 2588, 32, 2584, 2608, 32, 2584, 32, 2584, 32, 2588, 32, 128522, 32,
        128077, 127995, 32, 127995, 32, 8505, 65039, 32, 128077, 32, 8505,
        32, 128077, 127995>> }

\* the texts whose first run is remembered in baseline
ProbeTexts ==
    { <<32>>, <<2608>>, <<2584, 2608>>, <<2608, 32, 2608>>, ScenarioText }

(***************************************************************************)
(* The application.                                                        *)
(***************************************************************************)
Init ==
    /\ user_input = <<>>
    /\ lexicon = STANDARD_PUNJABI_DICT
    /\ outcome = "idle"
    /\ report = NoReport
    /\ neo_df = <<>>
    /\ emoji_df = <<>>
    /\ progress = NoProgress
    /\ steps = {}
    /\ call_args = NoCall
    /\ call_result = NoCall
    /\ baseline = NoBaseline

\* a script run without the button pressed renders no result, app.py:101
RerunIdle ==
    /\ outcome' = "idle"
    /\ report' = NoReport
    /\ neo_df' = <<>>
    /\ emoji_df' = <<>>
    /\ progress' = NoProgress
    /\ steps' = {}
    /\ call_args' = NoCall
    /\ call_result' = NoCall
    /\ UNCHANGED <<lexicon, baseline>>

\* the user types one more character into the text area, app.py:99
TypeChar ==
    /\ Len(user_input) < MaxLen
    /\ \E c \in TypedChars : user_input' = Append(user_input, c)
    /\ RerunIdle

\* the user replaces the text area's content by a pasted text, app.py:99
PasteSample ==
    /\ \E t \in SampleTexts : user_input' = t
    /\ RerunIdle

\* the user empties the text area, app.py:99
ClearInput ==
    /\ user_input # <<>>
    /\ user_input' = <<>>
    /\ RerunIdle

\* the first run on a probe text is remembered; phase tells whether a run
\* on another text came after it ("between") and then one on the same
\* text again ("again")
remember(text, o, r) ==
    IF baseline = NoBaseline
    THEN IF text \in ProbeTexts
         THEN [phase |-> "first", text |-> text, outcome |-> o, report |-> r]
         ELSE NoBaseline
    ELSE IF text = baseline.text
         THEN [baseline EXCEPT !.phase = IF @ = "first" THEN "first" ELSE "again"]
         ELSE [baseline EXCEPT !.phase = IF @ = "first" THEN "between" ELSE @]

\* "Analyze Text" pressed on blank input, app.py:101-104
AnalyzeBlank ==
    /\ is_blank(user_input)
    /\ outcome' = "warning"
    /\ report' = NoReport
    /\ neo_df' = <<>>
    /\ emoji_df' = <<>>
    /\ progress' = NoProgress
    /\ steps' = {}
    /\ call_args' = NoCall
    /\ call_result' = NoCall
    /\ baseline' = remember(user_input, "warning", NoReport)
    /\ UNCHANGED <<user_input, lexicon>>

\* "Analyze Text" pressed on other input, app.py:101-183
AnalyzeText ==
    /\ ~is_blank(user_input)
    /\ \E r \in {analyze(user_input, lexicon)} :
       \E shown \in {[f \in DOMAIN r \ {"known_words_set"} |-> r[f]]} :
           /\ outcome' = "report"
           /\ report' = shown
           /\ lexicon' = r.known_words_set
           /\ neo_df' \in sort_values_desc(r.neologism_counts)
           /\ emoji_df' = most_common(r.emoji_counts, 5)
           /\ progress' = [shown |-> TRUE,
                           value |-> progress_value(r.evolution_score),
                           high |-> high_divergence(r.evolution_score)]
           /\ steps' = {"tokenize", "classify", "aggregate"}
           /\ call_args' = <<r.neologism_total_count, r.total_word_count>>
           /\ call_result' = r.evolution_score
           /\ baseline' = remember(user_input, "report", shown)
    /\ UNCHANGED user_input

Next == TypeChar \/ PasteSample \/ ClearInput \/ AnalyzeBlank \/ AnalyzeText

Spec == Init /\ [][Next]_vars

(***************************************************************************)
(* calculate_evolution_score called on its own with arbitrary counts,      *)
(* followed by the display of its result (app.py:75-78, 177-179).          *)
(***************************************************************************)
InitAgg ==
    /\ user_input = <<>>
    /\ lexicon = STANDARD_PUNJABI_DICT
    /\ outcome = "idle"
    /\ report = NoReport
    /\ neo_df = <<>>
    /\ emoji_df = <<>>
    /\ progress = NoProgress
    /\ steps = {}
    /\ call_args \in (-MaxCount..MaxCount) \X (-MaxCount..MaxCount)
    /\ call_result = NoCall
    /\ baseline = NoBaseline

CallScore ==
    /\ call_result = NoCall
    /\ \E score \in {calculate_evolution_score(call_args[1], call_args[2])} :
           /\ call_result' = score
           /\ progress' = [shown |-> TRUE,
                           value |-> progress_value(score),
                           high |-> high_divergence(score)]
    /\ UNCHANGED <<user_input, lexicon, outcome, report, neo_df, emoji_df,
                   steps, call_args, baseline>>

NextAgg == CallScore

SpecAgg == InitAgg /\ [][NextAgg]_vars

(***************************************************************************)
(* Properties.                                                             *)
(***************************************************************************)
\* a punctuation character: ASCII punctuation (string.punctuation) or the danda
ispunct(c) ==
    \/ c \in 33..47 \/ c \in 58..64 \/ c \in 91..96 \/ c \in 123..126
    \/ c = 2404

\* the elements of a sequence
Range(s) == { s[i] : i \in 1..Len(s) }

RECURSIVE SumCounts(_)
\* the sum of the counts of a table of <<key, count>> rows
SumCounts(rows) == IF rows = <<>> THEN 0 ELSE Head(rows)[2] + SumCounts(Tail(rows))

\* sub occurs in s as a contiguous block
IsSubstring(sub, s) ==
    \E i \in 1..(Len(s) - Len(sub) + 1) : SubSeq(s, i, i + Len(sub) - 1) = sub

\* the index at which x first occurs in s
FirstIndex(x, s) == CHOOSE i \in 1..Len(s) : s[i] = x /\ \A j \in 1..(i - 1) : s[j] # x

\* rows holds every row of counter once
IsArrangement(rows, counter) ==
    /\ Len(rows) = Len(counter)
    /\ Range(rows) = Range(counter)

\* rows is in descending count, equal counts in order of first occurrence
\* of their keys in the token sequence source
StableDescending(rows, source) ==
    \A i, j \in 1..Len(rows) :
        i < j =>
            \/ rows[i][2] > rows[j][2]
            \/ /\ rows[i][2] = rows[j][2]
               /\ FirstIndex(rows[i][1], source) < FirstIndex(rows[j][1], source)

RECURSIVE RemoveInOrder(_, _)
\* text read left to right with the symbols syms cut out in their order:
\* rest is what is left of the text, left the symbols that were not found
RemoveInOrder(text, syms) ==
    IF text = <<>> THEN [rest |-> <<>>, left |-> syms]
    ELSE IF /\ syms # <<>>
            /\ Len(Head(syms)) <= Len(text)
            /\ SubSeq(text, 1, Len(Head(syms))) = Head(syms)
         THEN RemoveInOrder(SubSeq(text, Len(Head(syms)) + 1, Len(text)), Tail(syms))
         ELSE LET r == RemoveInOrder(Tail(text), syms)
              IN  [rest |-> <<Head(text)>> \o r.rest, left |-> r.left]

\* C1: after an analysis run the word tokens are partitioned exhaustively
\* and disjointly: total_word_count = known_count + neologism_count, the
\* known words being exactly the tokens that are members of the lexicon as
\* they stand, the neologism list exactly the others, in order.
C1_Partition ==
    outcome = "report" =>
        /\ report.total_word_count = Len(report.all_words)
        /\ report.neologism_total_count = Len(report.neologisms)
        /\ report.total_word_count =
               report.known_count + report.neologism_total_count
        /\ report.known_count =
               Cardinality({ i \in 1..Len(report.all_words) :
                               report.all_words[i] \in lexicon })
        /\ report.neologisms =
               SelectSeq(report.all_words, LAMBDA w : w \notin lexicon)

\* a run that found both known words and neologisms
C1_Witness ==
    /\ outcome = "report"
    /\ report.known_count > 0
    /\ report.neologism_total_count > 0

\* C2: the divergence score lies in [0, 100], is 100 * neologism_count /
\* total_words when total_words > 0, is 0 exactly when total_words = 0 or
\* there is no neologism, and the value shown by the progress bar is the
\* score over 100, unchanged by the clamp.
C2_ScoreRange ==
    outcome = "report" =>
        LET s == report.evolution_score
            n == report.neologism_total_count
            t == report.total_word_count
        IN  /\ call_result = s
            /\ s.den > 0
            /\ 0 <= s.num
            /\ s.num <= 100 * s.den
            /\ (t > 0 => s.num * t = 100 * n * s.den)
            /\ (s.num = 0 <=> (t = 0 \/ report.neologisms = <<>>))
            /\ progress.value.den > 0
            /\ progress.value.num * 100 * s.den = s.num * progress.value.den

\* a run whose score is strictly between 0 and 100
C2_Witness ==
    /\ outcome = "report"
    /\ 0 < report.evolution_score.num
    /\ report.evolution_score.num < 100 * report.evolution_score.den

\* C3: a run on empty or whitespace-only text signals the empty-input
\* warning and produces no report; no tokenization, classification or
\* aggregation step is executed.
C3_BlankRejected ==
    (outcome # "idle" /\ \A i \in 1..Len(user_input) : isspace(user_input[i])) =>
        /\ outcome = "warning"
        /\ report = NoReport
        /\ steps = {}
        /\ call_result = NoCall
        /\ neo_df = <<>>
        /\ emoji_df = <<>>
        /\ progress = NoProgress

\* the button pressed on a text of whitespace only
C3_Witness ==
    /\ outcome = "warning"
    /\ user_input # <<>>
    /\ report = NoReport

\* C4: given a negative or inconsistent count (a neologism count above
\* total_words), the aggregation fails with InvariantViolation: it returns
\* no score and nothing is shown.
C4_FailsFast ==
    (\/ call_args[1] < 0
     \/ call_args[2] < 0
     \/ call_args[1] > call_args[2]) =>
        /\ "num" \notin DOMAIN call_result
        /\ progress = NoProgress

\* C5: no extracted symbol surfaces as or inside a word token of the same
\* run; the words are extracted from the text with the symbols cut out,
\* and the symbols are exactly the regions cut out, left to right.
C5_SymbolsApart ==
    outcome = "report" =>
        LET cut == RemoveInOrder(user_input, report.all_emojis)
        IN  /\ \A s \in Range(report.all_emojis) : \A w \in Range(report.all_words) :
                   ~IsSubstring(s, w)
            /\ cut.left = <<>>
            /\ report.all_words =
                   SelectSeq(findall_w(cut.rest), LAMBDA w : ~isnumeric(w))
            /\ report.symbol_count = Len(report.all_emojis)

\* a run on a text where a letter-like symbol stands next to a word
C5_Witness ==
    /\ outcome = "report"
    /\ <<8505>> \in Range(report.all_emojis)
    /\ report.all_words # <<>>
    /\ \E i \in 1..(Len(user_input) - 1) :
           \/ user_input[i] = 8505 /\ is_word_char(user_input[i + 1])
           \/ user_input[i + 1] = 8505 /\ is_word_char(user_input[i])

\* C6: every word token is non-empty, has no whitespace and no punctuation
\* character and is not purely numeric; a candidate run is discarded
\* exactly when all of its characters are decimal digits.
C6_WordTokens ==
    outcome = "report" =>
        /\ \A w \in Range(report.all_words) :
               /\ w # <<>>
               /\ \A i \in 1..Len(w) : ~isspace(w[i]) /\ ~ispunct(w[i])
               /\ \E i \in 1..Len(w) : ~isnumeric_char(w[i])
        /\ report.all_words =
               SelectSeq(findall_w(replace_emoji(user_input)),
                         LAMBDA w : \E i \in 1..Len(w) : ~isdecimal(w[i]))

\* C7: the scenario text, against the dictionary (which holds ਮੈਂ, ਘਰ, ਜਾ
\* and ਹਾਂ, not ਰਿਹਾ), yields 5 words, 4 known, the one neologism ਰਿਹਾ,
\* 1 symbol and a score of 20.
C7_Scenario ==
    (user_input = ScenarioText /\ outcome = "report") =>
        /\ report.total_word_count = 5
        /\ report.known_count = 4
        /\ report.neologism_total_count = 1
        /\ report.neologisms = << <<2608, 2623, 2617, 2622>> >>
        /\ report.symbol_count = 1
        /\ report.evolution_score.num = 20 * report.evolution_score.den

\* C8: a run on a text renders what the first run on that text rendered,
\* whatever ran before or between, and the lexicon is the one the program
\* started with.
C8_Idempotent ==
    /\ lexicon = STANDARD_PUNJABI_DICT
    /\ (baseline.phase # "none" /\ outcome # "idle" /\ user_input = baseline.text) =>
           /\ outcome = baseline.outcome
           /\ report = baseline.report

\* the same text analysed again, with a report, after a run on another text
C8_Witness ==
    /\ baseline.phase = "again"
    /\ outcome = "report"
    /\ user_input = baseline.text
    /\ report.neologism_total_count > 0

\* C9: the counts of neologism_frequency sum to neologism_count, those of
\* symbol_frequency to symbol_count; every count is positive and the keys
\* are exactly the distinct neologisms, respectively symbols, of the run.
C9_FrequencySums ==
    outcome = "report" =>
        /\ SumCounts(report.neologism_counts) = report.neologism_total_count
        /\ SumCounts(report.emoji_counts) = report.symbol_count
        /\ report.symbol_count = Len(report.all_emojis)
        /\ \A i \in 1..Len(report.neologism_counts) : report.neologism_counts[i][2] >= 1
        /\ \A i \in 1..Len(report.emoji_counts) : report.emoji_counts[i][2] >= 1
        /\ { row[1] : row \in Range(report.neologism_counts) } = Range(report.neologisms)
        /\ { row[1] : row \in Range(report.emoji_counts) } = Range(report.all_emojis)
        /\ Len(report.neologism_counts) = Cardinality(Range(report.neologisms))
        /\ Len(report.emoji_counts) = Cardinality(Range(report.all_emojis))
        /\ \A row \in Range(report.neologism_counts) :
               row[2] = Cardinality({ i \in 1..Len(report.neologisms) :
                                        report.neologisms[i] = row[1] })
        /\ \A row \in Range(report.emoji_counts) :
               row[2] = Cardinality({ i \in 1..Len(report.all_emojis) :
                                        report.all_emojis[i] = row[1] })

\* a run with a repeated neologism and a repeated symbol
C9_Witness ==
    /\ outcome = "report"
    /\ \E i \in 1..Len(report.neologism_counts) : report.neologism_counts[i][2] >= 2
    /\ \E i \in 1..Len(report.emoji_counts) : report.emoji_counts[i][2] >= 2
    /\ Len(report.neologism_counts) >= 2
    /\ Len(report.emoji_counts) >= 2

====
